---- MODULE Spec2Model ----
(***************************************************************************)
(* A model of the FOMC calendar scraper (package fomc_scraper).            *)
(*                                                                         *)
(*   Spec            parse_current_calendar  (parse_current.py)            *)
(*   SpecHistorical  parse_historical        (parse_historical.py)         *)
(*   SpecFetch       fetch_html              (fetch.py)                    *)
(*   SpecParse       _parse_dates_and_flags, _parse_dates_from_text        *)
(*   SpecLocator     _container_for, _container_for_anchor                 *)
(*   SpecFuture      parse_future_calendar   (parse_future.py)             *)
(*                                                                         *)
(* Text is modelled as a sequence of tokens (month name, 1-2 digit number, *)
(* "/", dash, "*", parenthetical note, other words); tokens are separated  *)
(* by white space except around "/".  An ISO date string "YYYY-MM-DD" is   *)
(* the triple <<y, m, d>> of its zero-padded fields: equality and the      *)
(* lexicographic order of the strings are equality and the lexicographic   *)
(* order of the triples.                                                   *)
(***************************************************************************)
EXTENDS Integers, Sequences, FiniteSets, TLC

VARIABLES
    candidate_containers,   \* parse_current_calendar: the set of containers found
    todo,                   \* containers the loop has not visited yet
    records,                \* the dict of records, in insertion order
    outcome,                \* "running" | "returned" | "raised"
    last,                   \* history: what the latest loop iteration did, and to which container
    years,                  \* parse_historical: the years argument
    links,                  \* the sorted (year, url) pairs not fetched yet
    html,                   \* the year page fetched and not parsed yet
    results,                \* the entries collected so far
    pos,                    \* index in links of the pair the loop is at
    hist_pc,                \* "index" | "fetch" | "parse" | "returned" | "raised"
    fetched,                \* history: every year-page fetch, in order
    max_retries,            \* fetch_html: its arguments
    backoff,
    sleep_between,
    attempt,                \* the loop variable of "for attempt in range(max_retries + 1)"
    requests,               \* history: the outcome of every requests.get, in order
    slept,                  \* history: the argument of every time.sleep, in order
    fetch_pc,               \* "request" | "returned" | "raised"
    fetch_result,           \* the attempt whose response text was returned or whose error was raised
    parse_year,             \* the date parsers: the contextual year argument
    parse_text,             \* the text argument
    parse_proj,             \* the projection signal of the container's links
    parse_pc,               \* "ready" | "current" | "historical": which parser has returned
    parse_out,              \* what it returned
    loc_fn,                 \* container locator: "current" (_container_for) | "historical" (_container_for_anchor)
    chain,                  \* the starting block and its ancestors up to the root: does the text of each qualify
    level,                  \* index in chain of the local variable container
    checks,                 \* iterations of "for _ in range(6)" begun so far
    loc_pc,                 \* "loop" | "returned"
    loc_result,             \* index in chain of the block returned
    today,                  \* parse_future_calendar: _dt.date.today()
    candidates,             \* the (year, start, end, star) rows of all year sections, in page order
    fut_pos,                \* index in candidates of the row the loop is at
    out,                    \* the entries appended so far
    fut_pc                  \* "loop" | "returned"

curVars == <<candidate_containers, todo, records, outcome, last>>

histVars == <<years, links, html, results, pos, hist_pc, fetched>>

fetchVars ==
    <<max_retries, backoff, sleep_between, attempt, requests, slept, fetch_pc, fetch_result>>

parseVars == <<parse_year, parse_text, parse_proj, parse_pc, parse_out>>

locVars == <<loc_fn, chain, level, checks, loc_pc, loc_result>>

futVars == <<today, candidates, fut_pos, out, fut_pc>>

vars == <<curVars, histVars, fetchVars, parseVars, locVars, futVars>>

(***************************************************************************)
(* Tokens and texts                                                        *)
(***************************************************************************)
Qualifiers == {"unscheduled", "notation vote", "cancelled"}

Mon(m)  == [k |-> "mon",   v |-> m, q |-> {}]
Num(n)  == [k |-> "num",   v |-> n, q |-> {}]
Slash   == [k |-> "slash", v |-> 0, q |-> {}]
Dash    == [k |-> "dash",  v |-> 0, q |-> {}]
Star    == [k |-> "star",  v |-> 0, q |-> {}]
Note(q) == [k |-> "note",  v |-> 0, q |-> q]

RECURSIVE Without(_, _)
\* The text with every token of kind k removed (re.sub of the pattern by "").
Without(ts, k) ==
    IF ts = <<>> THEN <<>>
    ELSE IF Head(ts).k = k THEN Without(Tail(ts), k)
    ELSE <<Head(ts)>> \o Without(Tail(ts), k)

\* Index of the first token of kind k, 0 when there is none (re.search).
FirstOf(ts, k) ==
    IF \E i \in 1..Len(ts) : ts[i].k = k
    THEN CHOOSE i \in 1..Len(ts) :
            /\ ts[i].k = k
            /\ \A j \in 1..(i - 1) : ts[j].k # k
    ELSE 0

RemoveAt(ts, i) == [j \in 1..(Len(ts) - 1) |-> IF j < i THEN ts[j] ELSE ts[j + 1]]

\* pat (a sequence of token kinds) matches ts at position i.
MatchesAt(ts, pat, i) ==
    /\ i + Len(pat) - 1 <= Len(ts)
    /\ \A j \in 1..Len(pat) : ts[i + j - 1].k = pat[j]

\* Leftmost match of pat in ts, 0 when there is none (re.search).
Search(ts, pat) ==
    IF \E i \in 1..Len(ts) : MatchesAt(ts, pat, i)
    THEN CHOOSE i \in 1..Len(ts) :
            /\ MatchesAt(ts, pat, i)
            /\ \A j \in 1..(i - 1) : ~MatchesAt(ts, pat, j)
    ELSE 0

CrossMonthPat == <<"mon", "slash", "mon", "num", "dash", "num">>
SameMonthPat  == <<"mon", "num", "dash", "num">>
SingleDayPat  == <<"mon", "num">>

(***************************************************************************)
(* Dates                                                                   *)
(***************************************************************************)
NoDate == <<>>

\* f"{year:04d}-{month:02d}-{d:02d}"
Iso(y, m, d) == <<y, m, d>>

\* Order of two ISO strings (Python str comparison).
IsoLeq(a, b) ==
    \/ a[1] < b[1]
    \/ a[1] = b[1] /\ a[2] < b[2]
    \/ a[1] = b[1] /\ a[2] = b[2] /\ a[3] <= b[3]

IsLeap(y) == (y % 4 = 0 /\ y % 100 # 0) \/ y % 400 = 0

DaysInMonth(y, m) ==
    IF m = 2 THEN (IF IsLeap(y) THEN 29 ELSE 28)
    ELSE IF m \in {4, 6, 9, 11} THEN 30 ELSE 31

\* datetime.date(y, m, d) does not raise ValueError.
ValidDate(s) ==
    /\ s[1] \in 1..9999
    /\ s[2] \in 1..12
    /\ s[3] \in 1..DaysInMonth(s[1], s[2])

(***************************************************************************)
(* URLs.  A URL is the path family it belongs to, the eight digits its     *)
(* file name embeds (as the triple yyyy, mm, dd) and the rest of the name. *)
(***************************************************************************)
NoURL == [path |-> "", ds |-> <<0, 0, 0>>, sfx |-> ""]

\* href matching STATEMENT_HTML_RE and not IMPL_NOTE_RE
StatementURL(ds, sfx) == [path |-> "pressreleases/monetary", ds |-> ds, sfx |-> sfx]
\* href matching MINUTES_HTML_RE
MinutesURL(ds, sfx) == [path |-> "fomcminutes", ds |-> ds, sfx |-> sfx]
\* href matching PRESSCONF_HTML_RE
PressConfURL(ds) == [path |-> "fomcpresconf", ds |-> ds, sfx |-> ""]

NoLinks ==
    [statement_url_html |-> NoURL, minutes_url_html |-> NoURL,
     press_conference_url_html |-> NoURL]

LinkFields == {"statement_url_html", "minutes_url_html", "press_conference_url_html"}

\* The date PRESS_DATE_RE finds in the URL, NoDate for None.
_extract_press_date_from_url(url) ==
    IF url = NoURL THEN NoDate
    ELSE IF url.path # "pressreleases/monetary" THEN NoDate
    ELSE IF ValidDate(url.ds) THEN Iso(url.ds[1], url.ds[2], url.ds[3]) ELSE NoDate

(***************************************************************************)
(* parse_current.py: the date-range parser of the in-progress calendar     *)
(***************************************************************************)
_parse_dates_and_flags(year, date_prefix, has_projection) ==
    LET had_star == \E i \in 1..Len(date_prefix) : date_prefix[i].k = "star"
        text == Without(date_prefix, "star")
        n == FirstOf(text, "note")
        note == IF n # 0 THEN text[n].q ELSE {}
        text_wo_note == IF n # 0 THEN RemoveAt(text, n) ELSE text
        c == Search(text_wo_note, CrossMonthPat)
        r == Search(text_wo_note, SameMonthPat)
        s == Search(text_wo_note, SingleDayPat)
        dates ==
            IF c # 0 THEN
                LET month1 == text_wo_note[c].v
                    month2 == text_wo_note[c + 2].v
                    d1 == text_wo_note[c + 3].v
                    d2 == text_wo_note[c + 5].v
                    end_year == year + (IF month2 < month1 THEN 1 ELSE 0)
                IN  <<Iso(year, month1, d1), Iso(end_year, month2, d2)>>
            ELSE IF r # 0 THEN
                LET month == text_wo_note[r].v
                    d1 == text_wo_note[r + 1].v
                    d2 == text_wo_note[r + 3].v
                IN  <<Iso(year, month, d1), Iso(year, month, d2)>>
            ELSE IF s # 0 THEN
                LET month == text_wo_note[s].v
                    d1 == text_wo_note[s + 1].v
                IN  <<Iso(year, month, d1), Iso(year, month, d1)>>
            ELSE <<NoDate, NoDate>>
        meeting_type ==
            IF "notation vote" \in note THEN "Notation Vote"
            ELSE IF "unscheduled" \in note THEN "Unscheduled"
            ELSE "Scheduled"
    IN  [start_date |-> dates[1], end_date |-> dates[2],
         meeting_type |-> meeting_type,
         is_cancelled |-> "cancelled" \in note,
         has_sep |-> (had_star \/ has_projection)]

(***************************************************************************)
(* parse_current.py: parse_current_calendar                                *)
(*                                                                         *)
(* A candidate container is what lines 256-268 read from it: its date      *)
(* prefix (after _ensure_month_prefix), its contextual year (0 for None),  *)
(* the links and the projection signal _collect_links returns.             *)
(***************************************************************************)
PageYear == 2025
MaxContainers == 2

Jan2930 == <<Mon(1), Num(29), Dash, Num(30)>>

DatePrefixes ==
    { Jan2930,                                          \* "January 29-30"
      Jan2930 \o <<Note({"unscheduled"})>>,             \* "January 29-30 (unscheduled)"
      <<Mon(1), Num(31), Dash, Num(1)>>,                \* "January 31-1"
      <<Mon(6), Num(30), Dash, Num(31)>>,               \* "June 30-31"
      <<Num(29), Dash, Num(30)>> }                      \* "29-30", no month found

Stmt0130 == StatementURL(<<PageYear, 1, 30>>, "a")
Stmt0101 == StatementURL(<<PageYear, 1, 1>>, "a")
\* "monetary20251340a.htm": eight digits that are no calendar date
StmtNoDate == StatementURL(<<PageYear, 13, 40>>, "a")
Minutes1 == MinutesURL(<<PageYear, 1, 30>>, "")
Minutes2 == MinutesURL(<<PageYear, 1, 30>>, "b")
PressConf1 == PressConfURL(<<PageYear, 1, 30>>)

LinkSets ==
    { NoLinks,
      [NoLinks EXCEPT !.statement_url_html = Stmt0130],
      [NoLinks EXCEPT !.statement_url_html = Stmt0101],
      [NoLinks EXCEPT !.statement_url_html = StmtNoDate],
      [NoLinks EXCEPT !.minutes_url_html = Minutes1],
      [NoLinks EXCEPT !.minutes_url_html = Minutes2, !.press_conference_url_html = PressConf1] }

Containers ==
    [date_prefix : DatePrefixes, year : {PageYear}, links : LinkSets, has_proj : BOOLEAN]

\* MONTH_RE.search(date_prefix)
HasMonth(ts) == \E i \in 1..Len(ts) : ts[i].k = "mon"

Parsed(c) == _parse_dates_and_flags(c.year, c.date_prefix, c.has_proj)

KeyOf(c) == <<c.year, Parsed(c).start_date, Parsed(c).end_date>>

Key(rec) == <<rec.year, rec.start_date, rec.end_date>>

\* key in records
HasKey(recs, key) == \E i \in 1..Len(recs) : Key(recs[i]) = key

IndexOf(recs, key) == CHOOSE i \in 1..Len(recs) : Key(recs[i]) = key

SkippedEarlyNoStatementGate(c) ==
    \/ c.date_prefix = <<>>
    \/ ~HasMonth(c.date_prefix)
    \/ c.year = 0
    \/ Parsed(c).start_date = NoDate

\* Lines 258-274: the container is passed over before its end date is read.
SkippedEarly(c) ==
    \/ c.date_prefix = <<>>
    \/ ~HasMonth(c.date_prefix)
    \/ c.year = 0
    \/ Parsed(c).start_date = NoDate
    \/ /\ Parsed(c).meeting_type = "Scheduled"
       /\ ~Parsed(c).is_cancelled
       /\ c.links.statement_url_html = NoURL

\* Line 277: _date_from_iso(end_date) raises ValueError.
RaisesOnEndDate(c) == ~SkippedEarly(c) /\ ~ValidDate(Parsed(c).end_date)

FailsCrossCheckNever(c) == FALSE

\* Lines 276-279: the statement's press date differs from the end date.
FailsCrossCheck(c) ==
    /\ ~SkippedEarly(c)
    /\ ~RaisesOnEndDate(c)
    /\ c.links.statement_url_html # NoURL
    /\ _extract_press_date_from_url(c.links.statement_url_html) # NoDate
    /\ _extract_press_date_from_url(c.links.statement_url_html) # Parsed(c).end_date

Skipped(c) == SkippedEarly(c) \/ FailsCrossCheck(c)

Accepted(c) == ~SkippedEarly(c) /\ ~RaisesOnEndDate(c) /\ ~FailsCrossCheck(c)

\* Lines 283-294
NewRecord(c) ==
    [year |-> c.year,
     start_date |-> Parsed(c).start_date,
     end_date |-> Parsed(c).end_date,
     meeting_type |-> Parsed(c).meeting_type,
     is_cancelled |-> Parsed(c).is_cancelled,
     has_sep_projections |-> Parsed(c).has_sep,
     statement_url_html |-> c.links.statement_url_html,
     minutes_url_html |-> c.links.minutes_url_html,
     press_conference_url_html |-> c.links.press_conference_url_html]

FillLinksOverwriting(rec, new_links) ==
    [f \in DOMAIN rec |->
        IF f \in LinkFields /\ new_links[f] # NoURL THEN new_links[f] ELSE rec[f]]

\* Lines 296-298
FillLinks(rec, new_links) ==
    [f \in DOMAIN rec |->
        IF f \in LinkFields /\ rec[f] = NoURL THEN new_links[f] ELSE rec[f]]

\* Lines 281-298 on an accepted container.
Upsert(recs, c) ==
    IF ~HasKey(recs, KeyOf(c)) THEN Append(recs, NewRecord(c))
    ELSE [recs EXCEPT ![IndexOf(recs, KeyOf(c))] = FillLinks(@, c.links)]

Idle == [op |-> "none", c |-> [date_prefix |-> <<>>, year |-> 0, links |-> NoLinks, has_proj |-> FALSE]]

RECURSIVE SubsetsUpTo(_, _)
\* The subsets of S with at most n elements.
SubsetsUpTo(S, n) ==
    IF n = 0 THEN {{}}
    ELSE LET P == SubsetsUpTo(S, n - 1) IN P \cup {p \cup {x} : p \in P, x \in S}

\* The in-progress parser before the call.
CurrentIdle ==
    /\ candidate_containers = {}
    /\ todo = {}
    /\ records = <<>>
    /\ outcome = "idle"
    /\ last = Idle

\* The historical parser before the call.
HistoricalIdle ==
    /\ years = [given |-> FALSE, list |-> <<>>]
    /\ links = <<>>
    /\ html = [anchors |-> <<>>, headings |-> <<>>]
    /\ results = <<>>
    /\ pos = 1
    /\ hist_pc = "idle"
    /\ fetched = <<>>

\* fetch_html before the call.
FetchIdle ==
    /\ max_retries = 0
    /\ backoff = 0
    /\ sleep_between = 0
    /\ attempt = 0
    /\ requests = <<>>
    /\ slept = <<>>
    /\ fetch_pc = "idle"
    /\ fetch_result = -1

NoParse ==
    [start_date |-> NoDate, end_date |-> NoDate, meeting_type |-> "",
     is_cancelled |-> FALSE, has_sep |-> FALSE]

\* The date parsers before a call.
ParseIdle ==
    /\ parse_year = 0
    /\ parse_text = <<>>
    /\ parse_proj = FALSE
    /\ parse_pc = "idle"
    /\ parse_out = NoParse

\* The container locators before a call.
LocatorIdle ==
    /\ loc_fn = ""
    /\ chain = <<>>
    /\ level = 1
    /\ checks = 0
    /\ loc_pc = "idle"
    /\ loc_result = 0

\* The future-calendar parser before the call.
FutureIdle ==
    /\ today = NoDate
    /\ candidates = <<>>
    /\ fut_pos = 1
    /\ out = <<>>
    /\ fut_pc = "idle"

Init ==
    /\ candidate_containers \in SubsetsUpTo(Containers, MaxContainers)
    /\ todo = candidate_containers
    /\ records = <<>>
    /\ outcome = "running"
    /\ last = Idle
    /\ HistoricalIdle
    /\ FetchIdle
    /\ ParseIdle
    /\ LocatorIdle
    /\ FutureIdle

\* One iteration of "for c in candidate_containers" that ends in continue.
SkipContainer(c) ==
    /\ outcome = "running"
    /\ c \in todo
    /\ Skipped(c)
    /\ todo' = todo \ {c}
    /\ last' = [op |-> "skip", c |-> c]
    /\ UNCHANGED <<candidate_containers, records, outcome, histVars, fetchVars, parseVars, locVars, futVars>>

\* One iteration in which _date_from_iso raises: the call ends with ValueError.
RaiseValueError(c) ==
    /\ outcome = "running"
    /\ c \in todo
    /\ RaisesOnEndDate(c)
    /\ outcome' = "raised"
    /\ todo' = todo \ {c}
    /\ last' = [op |-> "raise", c |-> c]
    /\ UNCHANGED <<candidate_containers, records, histVars, fetchVars, parseVars, locVars, futVars>>

\* One iteration that creates the record of a new key.
InsertRecord(c) ==
    /\ outcome = "running"
    /\ c \in todo
    /\ Accepted(c)
    /\ ~HasKey(records, KeyOf(c))
    /\ records' = Upsert(records, c)
    /\ todo' = todo \ {c}
    /\ last' = [op |-> "insert", c |-> c]
    /\ UNCHANGED <<candidate_containers, outcome, histVars, fetchVars, parseVars, locVars, futVars>>

\* One iteration that merges into the record of an existing key.
MergeRecord(c) ==
    /\ outcome = "running"
    /\ c \in todo
    /\ Accepted(c)
    /\ HasKey(records, KeyOf(c))
    /\ records' = Upsert(records, c)
    /\ todo' = todo \ {c}
    /\ last' = [op |-> "merge", c |-> c]
    /\ UNCHANGED <<candidate_containers, outcome, histVars, fetchVars, parseVars, locVars, futVars>>

\* Line 300: the loop is over, the records are returned.
ReturnEntries ==
    /\ outcome = "running"
    /\ todo = {}
    /\ outcome' = "returned"
    /\ last' = [last EXCEPT !.op = "return"]
    /\ UNCHANGED <<candidate_containers, todo, records, histVars, fetchVars, parseVars, locVars, futVars>>

Next ==
    \/ \E c \in todo : SkipContainer(c)
    \/ \E c \in todo : RaiseValueError(c)
    \/ \E c \in todo : InsertRecord(c)
    \/ \E c \in todo : MergeRecord(c)
    \/ ReturnEntries

Spec == Init /\ [][Next]_vars

(***************************************************************************)
(* Properties of parse_current_calendar (checked under Spec)               *)
(***************************************************************************)
Range(seq) == {seq[i] : i \in 1..Len(seq)}

\* The orders in which a set can be iterated.
Orders(S) ==
    {o \in [1..Cardinality(S) -> S] : \A i, j \in 1..Cardinality(S) : o[i] = o[j] => i = j}

RECURSIVE RunLoop(_, _)
\* Lines 255-298 over the containers in the given order, none of which raises.
RunLoop(recs, order) ==
    IF order = <<>> THEN recs
    ELSE IF Accepted(Head(order)) THEN RunLoop(Upsert(recs, Head(order)), Tail(order))
    ELSE RunLoop(recs, Tail(order))

ScheduledWithoutStatement(c) ==
    /\ Parsed(c).meeting_type = "Scheduled"
    /\ ~Parsed(c).is_cancelled
    /\ c.links.statement_url_html = NoURL

\* C2 (in-progress pipeline): every entry has start_date <= end_date.
C2_StartNotAfterEnd ==
    \A i \in 1..Len(records) : IsoLeq(records[i].start_date, records[i].end_date)

\* C4: a merge changes only link fields that were unset, filling them from
\* the merged container; a set link and every other field keep the values of
\* the first-seen container.
C4_MergeFillsOnlyUnsetLinks ==
    [][\A i \in 1..Len(records) :
        /\ Len(records') >= Len(records)
        /\ \A f \in (DOMAIN records[i]) \ LinkFields : records'[i][f] = records[i][f]
        /\ \A f \in LinkFields :
            /\ records[i][f] # NoURL => records'[i][f] = records[i][f]
            /\ records'[i][f] # records[i][f] =>
                \E c \in todo \ todo' :
                    /\ KeyOf(c) = Key(records[i])
                    /\ records'[i][f] = c.links[f]]_vars

\* C4 witness: a merge met a record with a set link that differs from the
\* container's, filled another link, and the container's flags differ.
C4_Witness ==
    /\ last.op = "merge"
    /\ \E i \in 1..Len(records) :
        /\ Key(records[i]) = KeyOf(last.c)
        /\ last.c.links.minutes_url_html # NoURL
        /\ records[i].minutes_url_html \notin {NoURL, last.c.links.minutes_url_html}
        /\ records[i].press_conference_url_html = last.c.links.press_conference_url_html
        /\ records[i].press_conference_url_html # NoURL
        /\ records[i].has_sep_projections # Parsed(last.c).has_sep
        /\ \E c0 \in candidate_containers \ (todo \cup {last.c}) :
            /\ KeyOf(c0) = KeyOf(last.c)
            /\ c0.links.press_conference_url_html = NoURL

\* C5: the returned entries do not depend on the order in which the set of
\* candidate containers is iterated.
C5_OrderInsensitive ==
    outcome = "returned" =>
        \A o \in Orders(candidate_containers) : Range(RunLoop(<<>>, o)) = Range(records)

\* C6: every Scheduled, non-cancelled entry has a statement link, and a
\* Scheduled, non-cancelled container without one is neither inserted nor merged.
C6_ScheduledHasStatement ==
    /\ \A i \in 1..Len(records) :
        (records[i].meeting_type = "Scheduled" /\ ~records[i].is_cancelled)
            => records[i].statement_url_html # NoURL
    /\ last.op \in {"insert", "merge"} => ~ScheduledWithoutStatement(last.c)

\* C6 witness: the call returned a Scheduled entry although a Scheduled
\* container with the same key and only a minutes link was among the candidates.
C6_Witness ==
    /\ outcome = "returned"
    /\ \E c \in candidate_containers, i \in 1..Len(records) :
        /\ HasMonth(c.date_prefix)
        /\ ScheduledWithoutStatement(c)
        /\ c.links.minutes_url_html # NoURL
        /\ Key(records[i]) = KeyOf(c)
        /\ records[i].meeting_type = "Scheduled"
        /\ records[i].minutes_url_html = NoURL

\* C7: a statement link that embeds a date embeds the entry's end_date.
C7_StatementDateIsEndDate ==
    \A i \in 1..Len(records) :
        LET press_dt == _extract_press_date_from_url(records[i].statement_url_html)
        IN  press_dt # NoDate => press_dt = records[i].end_date

\* C7 witness: the statement link of a record was filled in by a merge.
C7_Witness ==
    /\ last.op = "merge"
    /\ last.c.links.statement_url_html # NoURL
    /\ \E i \in 1..Len(records) :
        /\ Key(records[i]) = KeyOf(last.c)
        /\ records[i].statement_url_html = last.c.links.statement_url_html
        /\ records[i].meeting_type = "Unscheduled"
        /\ \A c0 \in candidate_containers \ (todo \cup {last.c}) :
            c0.links.statement_url_html = NoURL

\* C8 (in-progress pipeline): a day that does not exist in its month never
\* makes the call raise and never reaches an entry.
C8_NonexistentDayIsSkipped ==
    /\ outcome # "raised"
    /\ \A i \in 1..Len(records) :
        ValidDate(records[i].start_date) /\ ValidDate(records[i].end_date)

\* The two projection signals of a container: an asterisk in its date text,
\* a link whose label holds "Projection".
HasProjectionSignal(c) ==
    \/ \E i \in 1..Len(c.date_prefix) : c.date_prefix[i].k = "star"
    \/ c.has_proj

\* C11 (in-progress pipeline): an entry's has_sep_projections is true exactly
\* when one of the containers inserted or merged under its key carries an
\* asterisk in its date text or a projection link.
C11_SepFlagFromAnyContainer ==
    \A i \in 1..Len(records) :
        records[i].has_sep_projections <=>
            \E c \in candidate_containers \ todo :
                /\ Accepted(c)
                /\ KeyOf(c) = Key(records[i])
                /\ HasProjectionSignal(c)

(***************************************************************************)
(* parse_historical.py: the date parser and the year-page parser           *)
(***************************************************************************)
_parse_dates_from_text(year, text) ==
    LET clean == Without(text, "note")
        meeting_type ==
            IF \E i \in 1..Len(text) : "notation vote" \in text[i].q THEN "Notation Vote"
            ELSE IF \E i \in 1..Len(text) : "unscheduled" \in text[i].q THEN "Unscheduled"
            ELSE "Scheduled"
        c == Search(clean, CrossMonthPat)
        r == Search(clean, SameMonthPat)
        s == Search(clean, SingleDayPat)
        dates ==
            IF c # 0 THEN
                LET month1 == clean[c].v
                    month2 == clean[c + 2].v
                    d1 == clean[c + 3].v
                    d2 == clean[c + 5].v
                    end_year == year + (IF month2 < month1 THEN 1 ELSE 0)
                IN  <<Iso(year, month1, d1), Iso(end_year, month2, d2)>>
            ELSE IF r # 0 THEN
                LET month == clean[r].v
                    d1 == clean[r + 1].v
                    d2 == clean[r + 3].v
                IN  <<Iso(year, month, d1), Iso(year, month, d2)>>
            ELSE IF s # 0 THEN
                LET month == clean[s].v
                    d1 == clean[s + 1].v
                IN  <<Iso(year, month, d1), Iso(year, month, d1)>>
            ELSE <<NoDate, NoDate>>
    IN  [start_date |-> dates[1], end_date |-> dates[2], has_sep |-> FALSE,
         meeting_type |-> meeting_type]

\* The entry lines 162-175 and 212-225 append for a block with the given
\* text, links and projection signal.
HistoricalEntry(year, hit, source_url) ==
    LET d == _parse_dates_from_text(year, hit.text) IN
    [year |-> year,
     start_date |-> d.start_date,
     end_date |-> d.end_date,
     meeting_type |-> d.meeting_type,
     is_cancelled |-> (\E i \in 1..Len(hit.text) : "cancelled" \in hit.text[i].q),
     has_sep_projections |-> hit.proj,
     statement_url_html |-> hit.links.statement_url_html,
     minutes_url_html |-> hit.links.minutes_url_html,
     press_conference_url_html |-> hit.links.press_conference_url_html,
     source_url |-> source_url]

RECURSIVE ScanHits(_, _, _, _)
\* The two loops of _parse_year_page over the blocks they visit; seen is the
\* set of keys of res.
ScanHits(year, hits, res, source_url) ==
    IF hits = <<>> THEN res
    ELSE LET e == HistoricalEntry(year, Head(hits), source_url) IN
         IF e.start_date = NoDate \/ HasKey(res, Key(e))
         THEN ScanHits(year, Tail(hits), res, source_url)
         ELSE ScanHits(year, Tail(hits), Append(res, e), source_url)

\* A year page is the blocks pass 1 reaches through statement and minutes
\* anchors, then the headings pass 2 reaches, each in document order.
_parse_year_page(year, page, source_url) ==
    ScanHits(year, page.anchors \o page.headings, <<>>, source_url)

(***************************************************************************)
(* parse_historical.py: parse_historical                                   *)
(***************************************************************************)
FirstDirectYear == 2010
ThisYear == 2011
MaxIndexAnchors == 1
MaxYearsLen == 1

Years == FirstDirectYear..ThisYear

SeqsUpTo(S, n) == UNION {[1..k -> S] : k \in 0..n}

\* An anchor of the index page: the year its text shows (0: none) and its href.
IndexAnchors == [y : Years \cup {0}, href : {"", "/monetarypolicy/fomchistorical.htm"}]

IndexPages == SeqsUpTo(IndexAnchors, MaxIndexAnchors)

\* years: None, or a list of years
YearsArgs ==
    {[given |-> FALSE, list |-> <<>>]} \cup {[given |-> TRUE, list |-> l] : l \in SeqsUpTo(Years, MaxYearsLen)}

RECURSIVE IndexLinks(_, _)
\* Lines 238-252
IndexLinks(anchors, yrs) ==
    IF anchors = <<>> THEN <<>>
    ELSE LET a == Head(anchors) IN
         IF \/ a.y = 0
            \/ yrs.list # <<>> /\ a.y \notin Range(yrs.list)
            \/ a.href = ""
         THEN IndexLinks(Tail(anchors), yrs)
         ELSE <<[y |-> a.y, url |-> <<"BASE_URL", a.href, 0>>]>> \o IndexLinks(Tail(anchors), yrs)

\* Lines 254-260
DirectLinks(yrs) ==
    LET candidate_years ==
            IF ~yrs.given THEN [i \in 1..(ThisYear - FirstDirectYear + 1) |-> FirstDirectYear + i - 1]
            ELSE yrs.list
    IN  [i \in 1..Len(candidate_years) |->
            [y |-> candidate_years[i],
             url |-> <<"BASE_URL", "/monetarypolicy/fomccalendars{y}.htm", candidate_years[i]>>]]

RECURSIVE SortByYear(_)
\* sorted(links, key=lambda t: t[0]): stable
SortByYear(seq) ==
    IF seq = <<>> THEN <<>>
    ELSE LET front == SortByYear(SubSeq(seq, 1, Len(seq) - 1))
             x == seq[Len(seq)]
             n == Cardinality({i \in 1..Len(front) : front[i].y <= x.y})
         IN  SubSeq(front, 1, n) \o <<x>> \o SubSeq(front, n + 1, Len(front))

HistStatement == StatementURL(<<0, 1, 30>>, "")
HistMinutes == MinutesURL(<<0, 1, 30>>, "")

HitMinutes == [text |-> Jan2930, links |-> [NoLinks EXCEPT !.minutes_url_html = HistMinutes], proj |-> FALSE]
HitStatement == [text |-> Jan2930, links |-> [NoLinks EXCEPT !.statement_url_html = HistStatement], proj |-> FALSE]
HitMarch ==
    [text |-> <<Mon(3), Num(19), Note({"unscheduled"})>>,
     links |-> [NoLinks EXCEPT !.statement_url_html = StatementURL(<<0, 3, 19>>, "")],
     proj |-> FALSE]

\* The year pages a fetch can return.
YearPages ==
    { [anchors |-> <<HitMinutes, HitStatement>>, headings |-> <<>>],
      [anchors |-> <<HitStatement>>, headings |-> <<HitMinutes>>],
      [anchors |-> <<HitMarch>>, headings |-> <<>>] }

NoPage == [anchors |-> <<>>, headings |-> <<>>]

InitHistorical ==
    /\ CurrentIdle
    /\ FetchIdle
    /\ ParseIdle
    /\ LocatorIdle
    /\ FutureIdle
    /\ years \in YearsArgs
    /\ links = <<>>
    /\ html = NoPage
    /\ results = <<>>
    /\ pos = 1
    /\ hist_pc = "index"
    /\ fetched = <<>>

\* Lines 236-260 and the sort of line 263, the index fetch succeeding.
FetchIndex(index_html) ==
    /\ hist_pc = "index"
    /\ links' = SortByYear(IndexLinks(index_html, years) \o DirectLinks(years))
    /\ hist_pc' = "fetch"
    /\ UNCHANGED <<years, html, results, pos, fetched, curVars, fetchVars, parseVars, locVars, futVars>>

\* Line 236: fetch_html raises, outside any try.
FetchIndexFails ==
    /\ hist_pc = "index"
    /\ hist_pc' = "raised"
    /\ UNCHANGED <<years, links, html, results, pos, fetched, curVars, fetchVars, parseVars, locVars, futVars>>

OnFetchFailureAbort == "raised"

\* Lines 266-267: except Exception: continue
OnFetchFailure == "fetch"

\* Line 265: fetch_html(url) returns the page.
FetchYearPage(page) ==
    /\ hist_pc = "fetch"
    /\ pos <= Len(links)
    /\ html' = page
    /\ fetched' = Append(fetched, [y |-> links[pos].y, url |-> links[pos].url, ok |-> TRUE, page |-> page])
    /\ hist_pc' = "parse"
    /\ UNCHANGED <<years, links, results, pos, curVars, fetchVars, parseVars, locVars, futVars>>

\* Lines 265-267: fetch_html(url) raises.
FetchYearPageFails ==
    /\ hist_pc = "fetch"
    /\ pos <= Len(links)
    /\ fetched' = Append(fetched, [y |-> links[pos].y, url |-> links[pos].url, ok |-> FALSE, page |-> NoPage])
    /\ pos' = pos + 1
    /\ hist_pc' = OnFetchFailure
    /\ UNCHANGED <<years, links, html, results, curVars, fetchVars, parseVars, locVars, futVars>>

\* Line 268
ParseYearPage ==
    /\ hist_pc = "parse"
    /\ results' = results \o _parse_year_page(links[pos].y, html, links[pos].url)
    /\ html' = NoPage
    /\ pos' = pos + 1
    /\ hist_pc' = "fetch"
    /\ UNCHANGED <<years, links, fetched, curVars, fetchVars, parseVars, locVars, futVars>>

\* Line 270
ReturnResults ==
    /\ hist_pc = "fetch"
    /\ pos > Len(links)
    /\ hist_pc' = "returned"
    /\ UNCHANGED <<years, links, html, results, pos, fetched, curVars, fetchVars, parseVars, locVars, futVars>>

NextHistorical ==
    \/ \E index_html \in IndexPages : FetchIndex(index_html)
    \/ FetchIndexFails
    \/ \E page \in YearPages : FetchYearPage(page)
    \/ FetchYearPageFails
    \/ ParseYearPage
    \/ ReturnResults

SpecHistorical == InitHistorical /\ [][NextHistorical]_vars

(***************************************************************************)
(* Properties of parse_historical (checked under SpecHistorical)           *)
(***************************************************************************)
RECURSIVE EntriesOf(_)
\* The entries of the fetched year pages, in fetch order; a failed fetch has none.
EntriesOf(fs) ==
    IF fs = <<>> THEN <<>>
    ELSE LET f == fs[Len(fs)] IN
         EntriesOf(SubSeq(fs, 1, Len(fs) - 1))
            \o (IF f.ok THEN _parse_year_page(f.y, f.page, f.url) ELSE <<>>)

\* C1: no two entries of the returned list share (year, start_date, end_date).
C1_NoDuplicateKeys ==
    hist_pc = "returned" =>
        \A i, j \in 1..Len(results) : Key(results[i]) = Key(results[j]) => i = j

\* C3 (historical pipeline): when a parsed year page holds a block with only
\* a minutes link and a block with only a statement link that yield the same
\* key, the page's single entry for the key carries both links.
C3_SameKeyLinksMerged ==
    \A n \in 1..Len(fetched) :
        LET f == fetched[n]
            hits == f.page.anchors \o f.page.headings
            entries == _parse_year_page(f.y, f.page, f.url)
        IN  \A a, b \in 1..Len(hits) :
                LET ea == HistoricalEntry(f.y, hits[a], f.url)
                    eb == HistoricalEntry(f.y, hits[b], f.url)
                IN  ( /\ f.ok
                      /\ ea.start_date # NoDate
                      /\ Key(ea) = Key(eb)
                      /\ ea.minutes_url_html # NoURL /\ ea.statement_url_html = NoURL
                      /\ eb.statement_url_html # NoURL /\ eb.minutes_url_html = NoURL )
                    => \E i \in 1..Len(entries) :
                            /\ Key(entries[i]) = Key(ea)
                            /\ \A j \in 1..Len(entries) : Key(entries[j]) = Key(ea) => j = i
                            /\ entries[i].minutes_url_html = ea.minutes_url_html
                            /\ entries[i].statement_url_html = eb.statement_url_html

\* C10: year pages are fetched in non-decreasing year order, one pair of
\* links after the other, each parsed before the next fetch; a failed fetch
\* adds nothing and does not end the run; the results are the concatenation
\* of the entries of the pages fetched successfully.
C10_FailedYearPagesSkipped ==
    /\ \A i, j \in 1..Len(fetched) : i <= j => fetched[i].y <= fetched[j].y
    /\ \A i \in 1..Len(fetched) :
        /\ i <= Len(links)
        /\ fetched[i].y = links[i].y
        /\ fetched[i].url = links[i].url
    /\ hist_pc = "parse" =>
        /\ fetched[Len(fetched)].ok
        /\ Len(fetched) = pos
        /\ results = EntriesOf(SubSeq(fetched, 1, Len(fetched) - 1))
    /\ hist_pc \in {"fetch", "returned"} =>
        /\ Len(fetched) = pos - 1
        /\ results = EntriesOf(fetched)
    /\ hist_pc = "returned" => Len(fetched) = Len(links)
    /\ hist_pc = "raised" => fetched = <<>>

\* C10 witness: the run returned entries of a page fetched after a failed
\* fetch of an earlier year.
C10_Witness ==
    /\ hist_pc = "returned"
    /\ \E i, j \in 1..Len(fetched) :
        /\ i < j
        /\ ~fetched[i].ok
        /\ fetched[j].ok
        /\ fetched[i].y < fetched[j].y
        /\ \E k \in 1..Len(results) : results[k].source_url = fetched[j].url

(***************************************************************************)
(* fetch.py: fetch_html.  backoff and sleep_between are floats in the      *)
(* code; the model draws them from small naturals.                         *)
(***************************************************************************)
MaxMaxRetries == 3
MaxBackoff == 3
MaxSleepBetween == 1

RECURSIVE Pow(_, _)
\* backoff ** attempt
Pow(b, n) == IF n = 0 THEN 1 ELSE b * Pow(b, n - 1)

InitFetch ==
    /\ CurrentIdle
    /\ HistoricalIdle
    /\ ParseIdle
    /\ LocatorIdle
    /\ FutureIdle
    /\ max_retries \in 0..MaxMaxRetries
    /\ backoff \in 1..MaxBackoff
    /\ sleep_between \in 0..MaxSleepBetween
    /\ attempt = 0
    /\ requests = <<>>
    /\ slept = <<>>
    /\ fetch_pc = "request"
    /\ fetch_result = -1

IsFinalAttemptOffByOne(a, n) == a = n + 1

\* Line 54: attempt == max_retries
IsFinalAttempt(a, n) == a = n

\* Lines 47-51: the request succeeds; pause, then return resp.text.
RequestSucceeds ==
    /\ fetch_pc = "request"
    /\ requests' = Append(requests, "ok")
    /\ slept' = Append(slept, sleep_between)
    /\ fetch_result' = attempt
    /\ fetch_pc' = "returned"
    /\ UNCHANGED <<max_retries, backoff, sleep_between, attempt, curVars, histVars, parseVars, locVars, futVars>>

\* Lines 52-58: the request fails before the final attempt; back off and retry.
RequestFailsRetry ==
    /\ fetch_pc = "request"
    /\ ~IsFinalAttempt(attempt, max_retries)
    /\ requests' = Append(requests, "fail")
    /\ slept' = Append(slept, Pow(backoff, attempt))
    /\ attempt' = attempt + 1
    /\ UNCHANGED <<max_retries, backoff, sleep_between, fetch_pc, fetch_result, curVars, histVars, parseVars, locVars, futVars>>

\* Lines 52-55: the request fails on the final attempt; re-raise.
RequestFailsFinal ==
    /\ fetch_pc = "request"
    /\ IsFinalAttempt(attempt, max_retries)
    /\ requests' = Append(requests, "fail")
    /\ fetch_result' = attempt
    /\ fetch_pc' = "raised"
    /\ UNCHANGED <<max_retries, backoff, sleep_between, attempt, slept, curVars, histVars, parseVars, locVars, futVars>>

NextFetch ==
    \/ RequestSucceeds
    \/ RequestFailsRetry
    \/ RequestFailsFinal

\* Every request ends (timeout) and every sleep ends: the loop keeps going.
SpecFetch == InitFetch /\ [][NextFetch]_vars /\ WF_vars(NextFetch)

\* C9: fetch_html makes at most max_retries + 1 requests and ends; it
\* returns the text of the first successful response after a pause of
\* sleep_between; it sleeps backoff ** attempt after each failed attempt but
\* the last; when all max_retries + 1 attempts fail it raises the last error.
C9_BoundedRetries ==
    /\ [](/\ Len(requests) <= max_retries + 1
          /\ \A i \in 1..Len(requests) :
                requests[i] = "fail" /\ i <= max_retries =>
                    (i <= Len(slept) /\ slept[i] = Pow(backoff, i - 1))
          /\ fetch_pc = "returned" =>
                /\ requests[Len(requests)] = "ok"
                /\ \A i \in 1..(Len(requests) - 1) : requests[i] = "fail"
                /\ fetch_result = Len(requests) - 1
                /\ Len(slept) = Len(requests)
                /\ slept[Len(slept)] = sleep_between
          /\ fetch_pc = "raised" =>
                /\ Len(requests) = max_retries + 1
                /\ \A i \in 1..Len(requests) : requests[i] = "fail"
                /\ fetch_result = max_retries
                /\ Len(slept) = max_retries)
    /\ <>(fetch_pc \in {"returned", "raised"})

\* C9 witness: a response was returned after two failed attempts.
C9_Witness ==
    /\ fetch_pc = "returned"
    /\ Len(requests) = 3
    /\ max_retries = 3
    /\ backoff = 2
    /\ slept = <<1, 2, sleep_between>>

(***************************************************************************)
(* The two date parsers on their own: _parse_dates_and_flags               *)
(* (parse_current.py) and _parse_dates_from_text with the is_cancelled and *)
(* has_sep_projections that _parse_year_page adds (parse_historical.py).   *)
(***************************************************************************)
\* Words outside any parenthesis that hold the keywords q.
Word(q) == [k |-> "word", v |-> 0, q |-> q]

Dec31Jan1 == <<Mon(12), Num(31), Dash, Mon(1), Num(1)>>

DateParts ==
    { Dec31Jan1,                                        \* "Dec 31-Jan 1"
      <<Mon(12), Slash, Mon(1), Num(31), Dash, Num(1)>>,\* "Dec/Jan 31-1"
      <<Mon(1), Slash, Mon(2), Num(31), Dash, Num(1)>>, \* "Jan/Feb 31-1"
      Jan2930,                                          \* "January 29-30"
      <<Mon(3), Num(19)>> }                             \* "March 19"

QualifierParts ==
    { <<>>,
      <<Star>>,                                         \* "*"
      <<Note({"unscheduled"})>>,                        \* "(unscheduled)"
      <<Star, Note({"unscheduled"})>>,
      <<Note({"cancelled"})>>,                          \* "(cancelled)"
      <<Note({"notation vote"})>>,                      \* "(notation vote)"
      <<Note({"unscheduled", "cancelled"})>>,           \* "(unscheduled, cancelled)"
      <<Note({"unscheduled"}), Note({"cancelled"})>>,   \* "(unscheduled) (cancelled)"
      <<Word({"cancelled"})>> }                         \* "- Cancelled"

ParseTexts == {d \o q : d \in DateParts, q \in QualifierParts}

ParseYears == {PageYear - 1, PageYear}

InitParse ==
    /\ CurrentIdle
    /\ HistoricalIdle
    /\ FetchIdle
    /\ LocatorIdle
    /\ FutureIdle
    /\ parse_year \in ParseYears
    /\ parse_text \in ParseTexts
    /\ parse_proj \in BOOLEAN
    /\ parse_pc = "ready"
    /\ parse_out = NoParse

\* parse_current.py line 269
ParseCurrent ==
    /\ parse_pc = "ready"
    /\ parse_out' = _parse_dates_and_flags(parse_year, parse_text, parse_proj)
    /\ parse_pc' = "current"
    /\ UNCHANGED <<parse_year, parse_text, parse_proj, curVars, histVars, fetchVars, locVars, futVars>>

\* parse_historical.py lines 153-157 and 168-169
ParseHistorical ==
    /\ parse_pc = "ready"
    /\ parse_out' =
        LET e == HistoricalEntry(parse_year,
                    [text |-> parse_text, links |-> NoLinks, proj |-> parse_proj], <<>>)
        IN  [start_date |-> e.start_date, end_date |-> e.end_date,
             meeting_type |-> e.meeting_type, is_cancelled |-> e.is_cancelled,
             has_sep |-> e.has_sep_projections]
    /\ parse_pc' = "historical"
    /\ UNCHANGED <<parse_year, parse_text, parse_proj, curVars, histVars, fetchVars, locVars, futVars>>

NextParse ==
    \/ ParseCurrent
    \/ ParseHistorical

SpecParse == InitParse /\ [][NextParse]_vars

\* The text holds the keyword, inside a parenthesis or outside.
HasKeyword(ts, kw) == \E i \in 1..Len(ts) : kw \in ts[i].q

\* C12: in both parsers a text that holds "cancelled" yields is_cancelled
\* true whatever the meeting type, and a text with a parenthetical
\* "unscheduled" qualifier (and no "notation vote") yields Unscheduled
\* whether or not it is cancelled.
C12_CancelledAndTypeIndependent ==
    parse_pc \in {"current", "historical"} =>
        /\ HasKeyword(parse_text, "cancelled") => parse_out.is_cancelled
        /\ ( /\ \E i \in 1..Len(parse_text) :
                    parse_text[i].k = "note" /\ "unscheduled" \in parse_text[i].q
             /\ ~HasKeyword(parse_text, "notation vote") )
            => parse_out.meeting_type = "Unscheduled"

\* The text names two months, the later-named one numerically earlier, and
\* holds a dash: a range that runs into the next year.
EndsInEarlierMonth(ts) ==
    /\ \E i \in 1..Len(ts) : ts[i].k = "dash"
    /\ \E i, j \in 1..Len(ts) :
        /\ i < j
        /\ ts[i].k = "mon"
        /\ ts[j].k = "mon"
        /\ ts[j].v < ts[i].v

\* C13: a range that ends in a numerically earlier month than it starts in
\* yields start_date in the contextual year and end_date in the next year,
\* every other accepted text yields both dates in the contextual year, and
\* "Dec 31-Jan 1" under 2024 yields 2024-12-31 and 2025-01-01.
C13_YearRollover ==
    parse_pc \in {"current", "historical"} =>
        /\ parse_out.start_date # NoDate =>
            /\ parse_out.start_date[1] = parse_year
            /\ parse_out.end_date[1] =
                (IF EndsInEarlierMonth(parse_text) THEN parse_year + 1 ELSE parse_year)
        /\ (parse_text = Dec31Jan1 /\ parse_year = 2024) =>
            /\ parse_out.start_date = Iso(2024, 12, 31)
            /\ parse_out.end_date = Iso(2025, 1, 1)

(***************************************************************************)
(* The container locators: _container_for (parse_current.py) and           *)
(* _container_for_anchor (parse_historical.py).                            *)
(*                                                                         *)
(* chain[1] is the starting block (the nearest li/p/div ancestor of the    *)
(* anchor, or the anchor itself), chain[i + 1] the parent of chain[i], the *)
(* last one the document root; chain[i] tells whether the text of block i  *)
(* passes the function's test.  The text of a block contains the text of   *)
(* its descendants, so the blocks above a passing block pass too.          *)
(***************************************************************************)
ClimbChecks == 6
MaxDepth == 7

Chains == {[i \in 1..n |-> i >= f] : n \in 1..MaxDepth, f \in 1..(MaxDepth + 1)}

InitLocator ==
    /\ CurrentIdle
    /\ HistoricalIdle
    /\ FetchIdle
    /\ ParseIdle
    /\ FutureIdle
    /\ loc_fn \in {"current", "historical"}
    /\ chain \in Chains
    /\ level = 1
    /\ checks = 0
    /\ loc_pc = "loop"
    /\ loc_result = 0

\* What the function returns when the loop ends without a return:
\* "return container" (parse_current.py line 115), or
\* "return anchor.find_parent([...]) or anchor" (parse_historical.py line 113).
Fallback(fn, container) == IF fn = "current" THEN container ELSE 1

\* An iteration whose test passes: return container.
LocFound ==
    /\ loc_pc = "loop"
    /\ checks < ClimbChecks
    /\ chain[level]
    /\ checks' = checks + 1
    /\ loc_result' = level
    /\ loc_pc' = "returned"
    /\ UNCHANGED <<loc_fn, chain, level, curVars, histVars, fetchVars, parseVars, futVars>>

\* An iteration whose test fails under a parent: container = container.parent.
LocClimb ==
    /\ loc_pc = "loop"
    /\ checks < ClimbChecks
    /\ ~chain[level]
    /\ level < Len(chain)
    /\ checks' = checks + 1
    /\ level' = level + 1
    /\ UNCHANGED <<loc_fn, chain, loc_pc, loc_result, curVars, histVars, fetchVars, parseVars, futVars>>

\* An iteration whose test fails at the root: break, then the final return.
LocBreak ==
    /\ loc_pc = "loop"
    /\ checks < ClimbChecks
    /\ ~chain[level]
    /\ level = Len(chain)
    /\ checks' = checks + 1
    /\ loc_result' = Fallback(loc_fn, level)
    /\ loc_pc' = "returned"
    /\ UNCHANGED <<loc_fn, chain, level, curVars, histVars, fetchVars, parseVars, futVars>>

\* range(6) is exhausted: the final return.
LocLoopEnds ==
    /\ loc_pc = "loop"
    /\ checks = ClimbChecks
    /\ loc_result' = Fallback(loc_fn, level)
    /\ loc_pc' = "returned"
    /\ UNCHANGED <<loc_fn, chain, level, checks, curVars, histVars, fetchVars, parseVars, futVars>>

NextLocator ==
    \/ LocFound
    \/ LocClimb
    \/ LocBreak
    \/ LocLoopEnds

SpecLocator == InitLocator /\ [][NextLocator]_vars

\* The blocks the bound lets the loop test.
Checked == 1..(IF Len(chain) < ClimbChecks THEN Len(chain) ELSE ClimbChecks)

\* C14: both locators return the first block among the starting block and
\* its ancestors, within six tests, whose text qualifies, and the starting
\* block itself when none does.
C14_FirstQualifyingOrStart ==
    loc_pc = "returned" =>
        IF \E i \in Checked : chain[i]
        THEN /\ chain[loc_result]
             /\ \A i \in 1..(loc_result - 1) : ~chain[i]
        ELSE loc_result = 1

(***************************************************************************)
(* parse_future.py: parse_future_calendar                                  *)
(*                                                                         *)
(* candidates is the concatenation, in page order, of the rows             *)
(* _parse_with_dom returns for the year sections, each with its year.      *)
(***************************************************************************)
MaxRows == 2

\* The days a date column shows: "31", "1", "30-31".
DayTexts == {<<31, 31>>, <<1, 1>>, <<30, 31>>}

FutureRows ==
    {[year |-> PageYear, start |-> Iso(PageYear, m, d[1]), end |-> Iso(PageYear, m, d[2]),
      star |-> s] : m \in {5, 6}, d \in DayTexts, s \in BOOLEAN}

Todays == {Iso(PageYear, 5, 31), Iso(PageYear, 6, 1)}

InitFuture ==
    /\ CurrentIdle
    /\ HistoricalIdle
    /\ FetchIdle
    /\ ParseIdle
    /\ LocatorIdle
    /\ today \in Todays
    /\ candidates \in SeqsUpTo(FutureRows, MaxRows)
    /\ fut_pos = 1
    /\ out = <<>>
    /\ fut_pc = "loop"

IsPastOrToday(end_dt, now) == IsoLeq(end_dt, now)

\* Line 97: end_dt < now
IsPast(end_dt, now) == ~IsoLeq(now, end_dt)

\* Lines 104-115
FutureEntry(row) ==
    [year |-> row.year,
     start_date |-> row.start,
     end_date |-> row.end,
     meeting_type |-> "Scheduled",
     is_cancelled |-> FALSE,
     has_sep_projections |-> row.star,
     statement_url_html |-> NoURL,
     minutes_url_html |-> NoURL,
     press_conference_url_html |-> NoURL,
     source_url |-> "CURRENT_CALENDAR_URL"]

\* Lines 93-96: fromisoformat raises on a day that does not exist; continue.
FutSkipInvalid ==
    /\ fut_pc = "loop"
    /\ fut_pos <= Len(candidates)
    /\ ~ValidDate(candidates[fut_pos].end)
    /\ fut_pos' = fut_pos + 1
    /\ UNCHANGED <<today, candidates, out, fut_pc, curVars, histVars, fetchVars, parseVars, locVars>>

\* Lines 97-98
FutSkipPast ==
    /\ fut_pc = "loop"
    /\ fut_pos <= Len(candidates)
    /\ ValidDate(candidates[fut_pos].end)
    /\ IsPast(candidates[fut_pos].end, today)
    /\ fut_pos' = fut_pos + 1
    /\ UNCHANGED <<today, candidates, out, fut_pc, curVars, histVars, fetchVars, parseVars, locVars>>

\* Lines 99-101: seen holds the keys of out.
FutSkipSeen ==
    /\ fut_pc = "loop"
    /\ fut_pos <= Len(candidates)
    /\ ValidDate(candidates[fut_pos].end)
    /\ ~IsPast(candidates[fut_pos].end, today)
    /\ HasKey(out, Key(FutureEntry(candidates[fut_pos])))
    /\ fut_pos' = fut_pos + 1
    /\ UNCHANGED <<today, candidates, out, fut_pc, curVars, histVars, fetchVars, parseVars, locVars>>

\* Lines 102-116
FutAppend ==
    /\ fut_pc = "loop"
    /\ fut_pos <= Len(candidates)
    /\ ValidDate(candidates[fut_pos].end)
    /\ ~IsPast(candidates[fut_pos].end, today)
    /\ ~HasKey(out, Key(FutureEntry(candidates[fut_pos])))
    /\ out' = Append(out, FutureEntry(candidates[fut_pos]))
    /\ fut_pos' = fut_pos + 1
    /\ UNCHANGED <<today, candidates, fut_pc, curVars, histVars, fetchVars, parseVars, locVars>>

\* Line 117
FutReturn ==
    /\ fut_pc = "loop"
    /\ fut_pos > Len(candidates)
    /\ fut_pc' = "returned"
    /\ UNCHANGED <<today, candidates, fut_pos, out, curVars, histVars, fetchVars, parseVars, locVars>>

NextFuture ==
    \/ FutSkipInvalid
    \/ FutSkipPast
    \/ FutSkipSeen
    \/ FutAppend
    \/ FutReturn

SpecFuture == InitFuture /\ [][NextFuture]_vars

\* C15: every entry of the future calendar ends today or later, is
\* Scheduled, not cancelled and has no link; every row visited whose end
\* date exists and is today or later has its entry.
C15_FutureOnly ==
    /\ \A i \in 1..Len(out) :
        /\ IsoLeq(today, out[i].end_date)
        /\ out[i].meeting_type = "Scheduled"
        /\ ~out[i].is_cancelled
        /\ \A f \in LinkFields : out[i][f] = NoURL
    /\ \A j \in 1..(fut_pos - 1) :
        (ValidDate(candidates[j].end) /\ IsoLeq(today, candidates[j].end))
            => HasKey(out, Key(FutureEntry(candidates[j])))

\* C15 witness: with today 2025-06-01 the call returned an entry that ends
\* today and none for the row that ended on 2025-05-31.
C15_Witness ==
    /\ fut_pc = "returned"
    /\ today = Iso(2025, 6, 1)
    /\ \E i \in 1..Len(out) : out[i].end_date = today
    /\ \E j \in 1..Len(candidates) : candidates[j].end = Iso(2025, 5, 31)
    /\ \A i \in 1..Len(out) : out[i].end_date # Iso(2025, 5, 31)

====
